---------------------------- MODULE Spec2Model ----------------------------
(* Model of ndsutils-rs (src/src/main.rs): the NDS Blowfish variant           *)
(* blowfish_nds, the key schedule apply_keycode, the ARM9 boot-code extractor *)
(* ARM9Bootcode::new and the sequence of steps of main.                       *)
(*                                                                            *)
(* A u32 is a tuple of four bytes, least significant first (the host is       *)
(* little-endian, which the source's transmutes rely on); a u64 is a record   *)
(* [lo, hi] of two u32.  Words keep their full 32-bit width.                  *)
EXTENDS Integers, Sequences, FiniteSets, TLC

VARIABLES
    \* ---- a run of main ----
    env,        \* the files the run finds: key blob, cartridge image, output directory
    pc,         \* position of main
    panic_at,   \* the step whose unwrap/assert/index panicked, or "none"
    encr,       \* main's `encr` ([u32; 1042]) once loaded
    ndshdr,     \* main's `ndshdr` once decoded
    arm9code,   \* main's `arm9code` once extracted
    keycode,    \* main's `keycode`, once built
    nds,        \* the cartridge file handle: cursor, number of seeks, bytes read
    stages,     \* the steps main has completed, in order
    crc_check_result, \* result of check_secure_area_crc, once made
    dump,       \* arm9.bin, once created: its content
    \* ---- direct calls of the public cipher functions ----
    v,          \* the 64-bit block handed to blowfish_nds
    kbuf,       \* the key table handed to blowfish_nds / apply_keycode
    tk,         \* the title keycode handed to apply_keycode
    hist,       \* the calls made so far
    pre,        \* v, kbuf and tk as they were before the last call
    v0,         \* the block before the first call
    kbuf_step2  \* the key table as apply_keycode's first loop left it (last call)

mainVars == <<env, pc, panic_at, encr, ndshdr, arm9code, keycode, nds, stages,
              crc_check_result, dump>>
cipherVars == <<v, kbuf, tk, hist, pre, v0, kbuf_step2>>
vars == <<env, pc, panic_at, encr, ndshdr, arm9code, keycode, nds, stages,
          crc_check_result, dump, v, kbuf, tk, hist, pre, v0, kbuf_step2>>

\* a value that is not there yet is the empty tuple, one that is there is <<value>>
None == <<>>
Some(x) == <<x>>
NoPanic == "none"

-----------------------------------------------------------------------------
(* 32-bit words as four bytes, least significant first *)

RECURSIVE BitXor(_, _, _)
BitXor(a, b, n) ==
    IF n = 0 THEN 0
    ELSE ((a + b) % 2) + 2 * BitXor(a \div 2, b \div 2, n - 1)

\* u8 ^ u8, tabulated
ByteXor == [a \in 0..255 |-> [b \in 0..255 |-> BitXor(a, b, 8)]]

\* u32 ^ u32
Xor32(a, b) == <<ByteXor[a[1]][b[1]], ByteXor[a[2]][b[2]],
                 ByteXor[a[3]][b[3]], ByteXor[a[4]][b[4]]>>

\* u32::wrapping_add
wrapping_add(a, b) ==
    LET s1 == a[1] + b[1]
        s2 == a[2] + b[2] + (s1 \div 256)
        s3 == a[3] + b[3] + (s2 \div 256)
        s4 == a[4] + b[4] + (s3 \div 256)
    IN  <<s1 % 256, s2 % 256, s3 % 256, s4 % 256>>

\* u32::swap_bytes
swap_bytes(a) == <<a[4], a[3], a[2], a[1]>>

\* u32 >> 1 and u32 << 1 (truncated to 32 bits)
Shr1(a) == <<(a[1] \div 2) + 128 * (a[2] % 2), (a[2] \div 2) + 128 * (a[3] % 2),
             (a[3] \div 2) + 128 * (a[4] % 2), a[4] \div 2>>
Shl1(a) == <<(2 * a[1]) % 256, ((2 * a[2]) % 256) + (a[1] \div 128),
             ((2 * a[3]) % 256) + (a[2] \div 128), ((2 * a[4]) % 256) + (a[3] \div 128)>>

U32 == [1..4 -> 0..255]

Zero32 == <<0, 0, 0, 0>>
Zero64 == [lo |-> Zero32, hi |-> Zero32]

-----------------------------------------------------------------------------
(* blowfish_nds *)

KeyTableWords == 1042
RoundCount == 16

\* the subkey index of the j-th pass (j = 1..16) of the loop of lines 92-100:
\* 0..16 ascending when encrypting, (2..18).rev() when decrypting
RoundIndex_FromSixteen(enc, j) == IF enc THEN j - 1 ELSE 17 - j
RoundIndex(enc, j) == IF enc THEN j - 1 ELSE 18 - j

\* lines 94-97: x rebuilt from the four S-boxes (at 0x12, 0x112, 0x212, 0x312),
\* indexed by the bytes of z from the most significant down
SboxMix(z, k) ==
    wrapping_add(k[786 + z[1]],
                 Xor32(k[530 + z[2]], wrapping_add(k[274 + z[3]], k[18 + z[4]])))

\* lines 98-99: x = y ^ x; y = z
Feistel(z, y, k) == [x |-> Xor32(y, SboxMix(z, k)), y |-> z]

\* one pass of the loop body on (x, y) with subkey index i (line 93: z = kbuf[i] ^ x)
Round(x, y, k, i) == Feistel(Xor32(k[i], x), y, k)

\* the passes j = lo..hi of the loop, in order: the passes lo..mid, then the
\* passes mid+1..hi on what they left (the CASE states that the halves stay
\* u32, and has TLC finish the first passes before it starts the later ones)
RECURSIVE Rounds(_, _, _, _, _)
RoundsFrom(s, k, enc, lo, hi) == CASE s.x \in U32 -> Rounds(s, k, enc, lo, hi)
Rounds(s, k, enc, lo, hi) ==
    IF lo = hi THEN Round(s.x, s.y, k, RoundIndex(enc, lo))
    ELSE RoundsFrom(Rounds(s, k, enc, lo, (lo + hi) \div 2), k, enc,
                    ((lo + hi) \div 2) + 1, hi)

\* lines 103-110: the direction's last two XORs; y becomes the low half of *v
\* and x the high half
Finalize(r, k, enc) ==
    [lo |-> Xor32(r.y, IF enc THEN k[16] ELSE k[1]),
     hi |-> Xor32(r.x, IF enc THEN k[17] ELSE k[0])]

\* blowfish_nds(v, kbuf, enc): the new value of *v; x is the low half of *v and
\* y the high half (lines 82-83)
blowfish_nds(b, k, enc) ==
    Finalize(Rounds([x |-> b.lo, y |-> b.hi], k, enc, 1, RoundCount), k, enc)

-----------------------------------------------------------------------------
(* apply_keycode *)

\* the 64-bit slot a transmuted &mut tk[n] points at: tk[n] is its low word
\* and tk[n + 1] its high word
Slot(t, n) == [lo |-> t[n], hi |-> t[n + 1]]
StoreSlot(t, n, b) == [t EXCEPT ![n] = b.lo, ![n + 1] = b.hi]
EncryptSlot_LowWordOnly(t, n, k) ==
    [t EXCEPT ![n] = blowfish_nds([lo |-> t[n], hi |-> Zero32], k, TRUE).lo]
EncryptSlot(t, n, k) == StoreSlot(t, n, blowfish_nds(Slot(t, n), k, TRUE))

\* lines 118-123: blowfish_nds(tk1ptr, ..), then blowfish_nds(tk0ptr, ..)
KeycodeEncrypt(t, k) == EncryptSlot(EncryptSlot(t, 1, k), 0, k)

\* lines 125-127: for i in 0..12 { kbuf[i] = kbuf[i] ^ kbuf[i % 2].swap_bytes() }
XorOperand(t, k, i) == swap_bytes(k[i % 2])
XorPass(t, k, i) == [k EXCEPT ![i] = Xor32(k[i], XorOperand(t, k, i))]

\* the passes i = lo..hi of that loop, in order
RECURSIVE KeycodeXorLoop(_, _, _, _)
XorLoopFrom(t, k, lo, hi) == CASE k[0] \in U32 -> KeycodeXorLoop(t, k, lo, hi)
KeycodeXorLoop(t, k, lo, hi) ==
    IF lo = hi THEN XorPass(t, k, lo)
    ELSE XorLoopFrom(t, KeycodeXorLoop(t, k, lo, (lo + hi) \div 2),
                     ((lo + hi) \div 2) + 1, hi)

\* lines 130-132, one pass: scratch is encrypted in place, its high word goes
\* to kbuf[i] and its low word to kbuf[i + 1]
StoreScratch(e, k, i) == [scratch |-> e, kbuf |-> [k EXCEPT ![i] = e.hi, ![i + 1] = e.lo]]
ScratchPass(s, i) == StoreScratch(blowfish_nds(s.scratch, s.kbuf, TRUE), s.kbuf, i)

\* lines 129-133: the passes i = 2 * lo, ..., 2 * hi of
\* for i in (0..131).step_by(2), in order
RECURSIVE KeycodeScratchLoop(_, _, _)
ScratchLoopFrom(s, lo, hi) == CASE s.scratch.lo \in U32 -> KeycodeScratchLoop(s, lo, hi)
KeycodeScratchLoop(s, lo, hi) ==
    IF lo = hi THEN ScratchPass(s, 2 * lo)
    ELSE ScratchLoopFrom(KeycodeScratchLoop(s, lo, (lo + hi) \div 2),
                         ((lo + hi) \div 2) + 1, hi)

\* (0..131).step_by(2) ends with i = 130 = 2 * 65
LastScratchPass == 65

\* apply_keycode(tk, kbuf): the new tk and kbuf; step2 is the table as the
\* first loop left it, before the second loop ran
KeycodeResult(t1, k2, s3) == [tk |-> t1, kbuf |-> s3.kbuf, step2 |-> k2]
KeycodeLoops(t1, k2) ==
    CASE k2[0] \in U32 ->
         KeycodeResult(t1, k2, KeycodeScratchLoop([scratch |-> Zero64, kbuf |-> k2],
                                                  0, LastScratchPass))
KeycodeXor(t1, k) == CASE t1[0] \in U32 -> KeycodeLoops(t1, KeycodeXorLoop(t1, k, 0, 11))
apply_keycode(t, k) == KeycodeXor(KeycodeEncrypt(t, k), k)

\* main, line 172: [gamecode, gamecode >> 1, gamecode << 1]
MakeKeycode(code) == [i \in 0..2 |-> IF i = 0 THEN code ELSE IF i = 1 THEN Shr1(code) ELSE Shl1(code)]

-----------------------------------------------------------------------------
(* inputs *)

NumTables == 2
MaxCalls == 2

\* the content of a key blob: word i of table s
TableWord(s, i) ==
    <<(7 * i + 13 * s + 1) % 256, (11 * i + 17 * s + 3 * (i \div 256) + 2) % 256,
      (13 * i + 19 * s + 3) % 256, (17 * i + 23 * s + 5 * (i \div 256) + 4) % 256>>
MkTable(s) == [i \in 0..(KeyTableWords - 1) |-> TableWord(s, i)]
KeyTables == {MkTable(s) : s \in 1..NumTables}

Sentinel == [lo |-> <<255, 222, 255, 231>>, hi |-> <<255, 222, 255, 231>>]
Blocks == {Sentinel, Zero64, [lo |-> <<239, 205, 171, 137>>, hi |-> <<103, 69, 35, 1>>]}

\* 0x12345678 and "ADAE"
Gamecodes == {<<120, 86, 52, 18>>, <<65, 68, 65, 69>>}

-----------------------------------------------------------------------------
(* direct calls of blowfish_nds and apply_keycode on bounded inputs *)

MainIdle ==
    /\ env = None /\ pc = "idle" /\ panic_at = NoPanic /\ encr = None
    /\ ndshdr = None /\ arm9code = None /\ keycode = None
    /\ nds = [pos |-> 0, seeks |-> 0, read |-> 0] /\ stages = <<>> /\ crc_check_result = None
    /\ dump = None

CipherInit ==
    /\ MainIdle
    /\ v \in Blocks
    /\ kbuf \in KeyTables
    /\ tk \in {MakeKeycode(c) : c \in Gamecodes}
    /\ hist = <<>>
    /\ pre = None
    /\ v0 = v
    /\ kbuf_step2 = None

Faulted == \E n \in 1..Len(hist) : hist[n] = "fault"
CanCall == Len(hist) < MaxCalls /\ ~Faulted
Snapshot == [v |-> v, kbuf |-> kbuf, tk |-> tk]

Encrypt ==
    /\ CanCall
    /\ v' = blowfish_nds(v, kbuf, TRUE)
    /\ hist' = Append(hist, "enc")
    /\ pre' = Snapshot
    /\ UNCHANGED <<kbuf, tk, v0, kbuf_step2>>
    /\ UNCHANGED mainVars

Decrypt ==
    /\ CanCall
    /\ v' = blowfish_nds(v, kbuf, FALSE)
    /\ hist' = Append(hist, "dec")
    /\ pre' = Snapshot
    /\ UNCHANGED <<kbuf, tk, v0, kbuf_step2>>
    /\ UNCHANGED mainVars

ApplyKeycode ==
    /\ CanCall
    /\ LET r == apply_keycode(tk, kbuf)
       IN  /\ tk' = r.tk
           /\ kbuf' = r.kbuf
           /\ kbuf_step2' = r.step2
    /\ hist' = Append(hist, "apply_keycode")
    /\ pre' = Snapshot
    /\ UNCHANGED <<v, v0>>
    /\ UNCHANGED mainVars

\* lines 118-119 make a &mut u64 of a 4-byte aligned u32: where the target
\* traps on a misaligned access the call never returns
ApplyKeycodeFault ==
    /\ CanCall
    /\ hist' = Append(hist, "fault")
    /\ pre' = Snapshot
    /\ UNCHANGED <<v, kbuf, tk, v0, kbuf_step2>>
    /\ UNCHANGED mainVars

CipherNext == Encrypt \/ Decrypt \/ ApplyKeycode \/ ApplyKeycodeFault

SpecCipher == CipherInit /\ [][CipherNext]_vars

-----------------------------------------------------------------------------
(* the files a run of main finds *)

HeaderSize == 48          \* size_of::<NDSCartridgeHeader>(), packed(1)
Arm9Offset == 16384       \* 0x4000, the only boot-code offset new accepts
SecureAreaEnd == 32768    \* 0x8000
CrcOffset == 14           \* 0xE
CrcSliceStart == 16       \* 0x10
CrcSliceEnd == 2048       \* 0x800
CrcSliceLen == 2032       \* 0x7F0

\* boot-code word counts and cartridge lengths that reach each branch
WordCounts == {0, 1, 16, 256, 2047, 2048}
NdsLengths == {40, HeaderSize} \cup {Arm9Offset + 8 * w : w \in {1, 256, 2048}}
Offsets == {12288, Arm9Offset, 32760, SecureAreaEnd}

Headers ==
    [gamecode : Gamecodes, arm9off : Offsets, arm9size : WordCounts]

Envs ==
    [missing  : {"none", "pokemon.nds", "encr_data.bin"},
     encr_len : {4 * KeyTableWords - 4, 4 * KeyTableWords},
     nds_len  : NdsLengths,
     hdr      : Headers,
     word0    : {Sentinel, Zero64},
     out      : {"ok", "create fails", "write fails"}]

\* the u64 words the cartridge holds from byte offset off to its end
AvailWords(e, off) == IF e.nds_len <= off THEN 0 ELSE (e.nds_len - off) \div 8

\* the n-th u64 (n = 0, 1, ..) of the cartridge from the boot-code offset
CartWord(e, n) ==
    IF n = 0 THEN e.word0
    ELSE [lo |-> <<n % 256, n \div 256, 0, 0>>, hi |-> <<(3 * n) % 256, 7, n % 256, n \div 256>>]

-----------------------------------------------------------------------------
(* ARM9Bootcode::new *)

SecureAreaPresent_Above(off) == off > Arm9Offset /\ off < SecureAreaEnd
\* line 40
SecureAreaPresent(off) == off >= Arm9Offset /\ off < SecureAreaEnd

\* line 36
SecureAreaEncrypted(contents) == contents[1] # Sentinel

\* nds.seek(SeekFrom::Start(off))
Seek(f, off) == [f EXCEPT !.pos = off, !.seeks = f.seeks + 1]

\* n successful reads of 8 bytes
ReadWords(f, n) == [f EXCEPT !.pos = f.pos + 8 * n, !.read = f.read + 8 * n]

\* lines 31-42: the reads, the index of contents[0] and the value returned,
\* on the handle f1 as the seek left it
ReadBootcode(f1, h, e) ==
    IF AvailWords(e, h.arm9off) < h.arm9size
    THEN [panic |-> "extract: read", nds |-> ReadWords(f1, AvailWords(e, h.arm9off)),
          code |-> None]
    ELSE IF h.arm9size = 0
    THEN [panic |-> "extract: index", nds |-> f1, code |-> None]
    ELSE LET contents == [n \in 1..h.arm9size |-> CartWord(e, n - 1)]
         IN  [panic |-> NoPanic,
              nds   |-> ReadWords(f1, h.arm9size),
              code  |-> Some([raw_data |-> contents,
                              secure_area_present |-> SecureAreaPresent(h.arm9off),
                              secure_area_encrypted |-> SecureAreaEncrypted(contents)])]

ARM9Bootcode_new_SeekFirst(f, h, e) ==
    IF h.arm9off # Arm9Offset
    THEN [panic |-> "extract: assert", nds |-> Seek(f, h.arm9off), code |-> None]
    ELSE ReadBootcode(Seek(f, h.arm9off), h, e)

\* ARM9Bootcode::new(nds, hdr): what it returns, or where it panics, and the
\* file handle as it leaves it (line 26: the assert comes before the seek)
ARM9Bootcode_new(f, h, e) ==
    IF h.arm9off # Arm9Offset
    THEN [panic |-> "extract: assert", nds |-> f, code |-> None]
    ELSE ReadBootcode(Seek(f, h.arm9off), h, e)

-----------------------------------------------------------------------------
(* main *)

\* lines 200-203: arm9u8ref is the &[u64] transmuted to &[u8], which keeps the
\* length field: its len() is the number of words.  Indexing [0xE] and slicing
\* [0x10..0x800] are checked against that length
CrcSliceInBounds_IndexOnly(len) == CrcOffset < len
CrcSliceInBounds(len) == CrcOffset < len /\ CrcSliceEnd <= len

\* the bytes of a u64 in memory
WordBytes(w) == w.lo \o w.hi

\* line 201: the u16 at byte 0xE of the boot code
RomCrc(raw) == WordBytes(raw[2])[7] + 256 * WordBytes(raw[2])[8]

\* line 155
check_secure_area_crc_len(n) == n = CrcSliceLen

\* lines 223-225: write_all of the &[u64] transmuted to &[u8]: len() bytes
DumpOf(raw) ==
    [len   |-> Len(raw),
     words |-> SubSeq(raw, 1, Len(raw) \div 8),
     tail  |-> IF Len(raw) % 8 = 0 THEN <<>>
               ELSE SubSeq(WordBytes(raw[(Len(raw) \div 8) + 1]), 1, Len(raw) % 8)]

CipherIdle ==
    /\ v = Zero64 /\ kbuf = None /\ tk = None /\ hist = <<>>
    /\ pre = None /\ v0 = Zero64 /\ kbuf_step2 = None

Init ==
    /\ CipherIdle
    /\ env \in Envs
    /\ pc = "open"
    /\ panic_at = NoPanic
    /\ encr = None
    /\ ndshdr = None
    /\ arm9code = None
    /\ keycode = None
    /\ nds = [pos |-> 0, seeks |-> 0, read |-> 0]
    /\ stages = <<>>
    /\ crc_check_result = None
    /\ dump = None

Panic(where) == pc' = "panicked" /\ panic_at' = where
Goto(next, done) == pc' = next /\ stages' = Append(stages, done) /\ panic_at' = panic_at

\* lines 162-163
OpenFiles ==
    /\ pc = "open"
    /\ IF env.missing # "none"
       THEN Panic("open") /\ UNCHANGED stages
       ELSE Goto("load", "open")
    /\ UNCHANGED <<env, nds, encr, ndshdr, arm9code, keycode, crc_check_result, dump>>
    /\ UNCHANGED cipherVars

\* line 165, load_encr_data (lines 136-148): 1042 times read_u32().unwrap()
LoadEncrData ==
    /\ pc = "load"
    /\ IF env.encr_len < 4 * KeyTableWords
       THEN Panic("load") /\ UNCHANGED <<encr, stages>>
       ELSE Goto("decode", "load") /\ encr' = Some(MkTable(1))
    /\ UNCHANGED <<env, ndshdr, arm9code, keycode, nds, crc_check_result, dump>>
    /\ UNCHANGED cipherVars

\* line 167, parse_nds (lines 66-78): seek to 0, read_exact of the header
ParseNds ==
    /\ pc = "decode"
    /\ IF env.nds_len < HeaderSize
       THEN /\ Panic("decode")
            /\ nds' = Seek(nds, 0)
            /\ UNCHANGED <<ndshdr, stages>>
       ELSE /\ Goto("extract", "decode")
            /\ nds' = [Seek(nds, 0) EXCEPT !.pos = HeaderSize, !.read = HeaderSize]
            /\ ndshdr' = Some(env.hdr)
    /\ UNCHANGED <<env, encr, arm9code, keycode, crc_check_result, dump>>
    /\ UNCHANGED cipherVars

\* line 170
NewBootcode ==
    /\ pc = "extract"
    /\ LET r == ARM9Bootcode_new(nds, ndshdr[1], env)
       IN  /\ nds' = r.nds
           /\ arm9code' = r.code
           /\ IF r.panic # NoPanic
              THEN Panic(r.panic) /\ UNCHANGED stages
              ELSE Goto("keycode", "extract")
    /\ UNCHANGED <<env, encr, ndshdr, keycode, crc_check_result, dump>>
    /\ UNCHANGED cipherVars

\* line 172; the calls of apply_keycode and blowfish_nds that follow it in the
\* source (lines 174-178) are commented out
BuildKeycode ==
    /\ pc = "keycode"
    /\ keycode' = Some(MakeKeycode(ndshdr[1].gamecode))
    /\ Goto("report", "keycode")
    /\ UNCHANGED <<env, encr, ndshdr, arm9code, nds, crc_check_result, dump>>
    /\ UNCHANGED cipherVars

\* lines 181-196: the printed report
Report ==
    /\ pc = "report"
    /\ Goto("validate", "report")
    /\ UNCHANGED <<env, encr, ndshdr, arm9code, keycode, nds, crc_check_result, dump>>
    /\ UNCHANGED cipherVars

\* lines 200-214: check_secure_area_crc on bytes [0x10, 0x800); bios_get_crc16
\* is outside this file and may return any u16
ValidateCrc ==
    /\ pc = "validate"
    /\ IF ~CrcSliceInBounds(Len(arm9code[1].raw_data))
          \/ ~check_secure_area_crc_len(CrcSliceEnd - CrcSliceStart)
       THEN Panic("validate") /\ UNCHANGED <<crc_check_result, stages>>
       ELSE \E crc_correct \in {RomCrc(arm9code[1].raw_data),
                                (RomCrc(arm9code[1].raw_data) + 1) % 65536} :
               /\ crc_check_result' =
                      Some(<<crc_correct = RomCrc(arm9code[1].raw_data), crc_correct>>)
               /\ Goto("create", "validate")
    /\ UNCHANGED <<env, encr, ndshdr, arm9code, keycode, nds, dump>>
    /\ UNCHANGED cipherVars

\* lines 217-222: arm9.bin is created, or truncated
CreateDump ==
    /\ pc = "create"
    /\ IF env.out = "create fails"
       THEN Panic("create") /\ UNCHANGED <<dump, stages>>
       ELSE Goto("write", "create") /\ dump' = Some(DumpOf(<<>>))
    /\ UNCHANGED <<env, encr, ndshdr, arm9code, keycode, nds, crc_check_result>>
    /\ UNCHANGED cipherVars

\* lines 223-225
WriteDump ==
    /\ pc = "write"
    /\ IF env.out = "write fails"
       THEN Panic("write") /\ UNCHANGED <<dump, stages>>
       ELSE Goto("done", "emit") /\ dump' = Some(DumpOf(arm9code[1].raw_data))
    /\ UNCHANGED <<env, encr, ndshdr, arm9code, keycode, nds, crc_check_result>>
    /\ UNCHANGED cipherVars

Next ==
    \/ OpenFiles
    \/ LoadEncrData
    \/ ParseNds
    \/ NewBootcode
    \/ BuildKeycode
    \/ Report
    \/ ValidateCrc
    \/ CreateDump
    \/ WriteDump

Spec == Init /\ [][Next]_vars

-----------------------------------------------------------------------------
(* properties of blowfish_nds and apply_keycode, checked under SpecCipher *)

Last == IF hist = <<>> THEN "none" ELSE hist[Len(hist)]

\* C1: decrypting the result of encrypting a block under the same key table
\* gives the block back, and so does encrypting the result of decrypting it.
C1_RoundTrip ==
    (hist = <<"enc", "dec">> \/ hist = <<"dec", "enc">>) => v = v0

\* C2: after the first loop of apply_keycode, each of the entries 0..11 of the
\* key table is its value before the loop XOR the byte-swapped keycode word
\* (i mod 2), the keycode words being those the two encryptions produced.
C2_XorWithKeycode ==
    Last = "apply_keycode" =>
        \A i \in 0..11 : kbuf_step2[i] = Xor32(pre.kbuf[i], swap_bytes(tk[i % 2]))

\* C3: for a fixed initial key table the table apply_keycode leaves depends on
\* the keycode: two of the keycodes lead to different tables.
C3_TitleSpecific ==
    Last = "apply_keycode" =>
        \E c1, c2 \in Gamecodes :
            apply_keycode(MakeKeycode(c1), pre.kbuf).kbuf
                # apply_keycode(MakeKeycode(c2), pre.kbuf).kbuf

\* the transform as the specification words it: 16 rounds over the subkeys in
\* the direction's order, then the direction's two last XORs
RefSubkeys(enc) ==
    IF enc THEN <<0, 1, 2, 3, 4, 5, 6, 7, 8, 9, 10, 11, 12, 13, 14, 15>>
    ELSE <<17, 16, 15, 14, 13, 12, 11, 10, 9, 8, 7, 6, 5, 4, 3, 2>>
RefSbox(k, box, byte) == k[18 + 256 * box + byte]
RefF(z, k) ==
    wrapping_add(Xor32(wrapping_add(RefSbox(k, 0, z[4]), RefSbox(k, 1, z[3])),
                       RefSbox(k, 2, z[2])),
                 RefSbox(k, 3, z[1]))
RefRound(s, z, k) == [x |-> Xor32(s.y, RefF(z, k)), y |-> z]
RECURSIVE RefRounds(_, _, _)
RefRounds(s, keys, k) ==
    IF keys = <<>> THEN s
    ELSE CASE s.x \in U32 ->
              RefRounds(RefRound(s, Xor32(k[Head(keys)], s.x), k), Tail(keys), k)
RefLast(r, py, px) == [lo |-> Xor32(r.y, py), hi |-> Xor32(r.x, px)]
Reference(b, k, enc) ==
    IF enc THEN RefLast(RefRounds([x |-> b.lo, y |-> b.hi], RefSubkeys(TRUE), k), k[16], k[17])
    ELSE RefLast(RefRounds([x |-> b.lo, y |-> b.hi], RefSubkeys(FALSE), k), k[1], k[0])

\* C8: blowfish_nds computes the reference transform, in both directions, and
\* leaves the key table as it was.
C8_MatchesReference ==
    Last \in {"enc", "dec"} =>
        /\ v = Reference(pre.v, pre.kbuf, Last = "enc")
        /\ kbuf = pre.kbuf

C8_Witness ==
    /\ hist = <<"dec", "enc">>
    /\ v # pre.v
    /\ pre.v # v0

\* C9: apply_keycode leaves keycode word 2 as it was.
C9_Word2Untouched ==
    Last = "apply_keycode" => tk[2] = pre.tk[2]

\* C9 as the code has it: the first encryption is of the block made of words 1
\* (low) and 2 (high) and writes both back, the second is of the block made of
\* word 0 (low) and the new word 1 (high); word 2 ends as the high half of the
\* first result.
C9_Word2Overwritten ==
    Last = "apply_keycode" =>
        /\ tk[2] = blowfish_nds([lo |-> pre.tk[1], hi |-> pre.tk[2]], pre.kbuf, TRUE).hi
        /\ [lo |-> tk[0], hi |-> tk[1]] =
               blowfish_nds([lo |-> pre.tk[0],
                             hi |-> blowfish_nds([lo |-> pre.tk[1], hi |-> pre.tk[2]],
                                                 pre.kbuf, TRUE).lo],
                            pre.kbuf, TRUE)

C9_Witness ==
    /\ Last = "apply_keycode"
    /\ tk[2] # pre.tk[2]

-----------------------------------------------------------------------------
(* properties of ARM9Bootcode::new and of main, checked under Spec *)

Extracted == ndshdr # None /\ pc # "extract"

\* C4: the BootCode new returns has secure_area_present exactly when the
\* header's offset is in [0x4000, 0x8000), and a header whose offset is 0x3000
\* yields a BootCode with secure_area_present false.
C4_PresenceIncluding0x3000 ==
    /\ arm9code # None =>
           (arm9code[1].secure_area_present <=>
                (ndshdr[1].arm9off >= 16384 /\ ndshdr[1].arm9off < 32768))
    /\ (Extracted /\ ndshdr[1].arm9off = 12288) =>
           (arm9code # None /\ ~arm9code[1].secure_area_present)

\* C4 as the code has it: the same classification of every BootCode that is
\* returned, and a header whose offset is 0x3000 is rejected: no BootCode.
C4_PresenceOfReturned ==
    /\ arm9code # None =>
           (arm9code[1].secure_area_present <=>
                (ndshdr[1].arm9off >= 16384 /\ ndshdr[1].arm9off < 32768))
    /\ (Extracted /\ ndshdr[1].arm9off = 12288) =>
           (arm9code = None /\ pc = "panicked" /\ panic_at = "extract: assert")

C4_Witness ==
    /\ arm9code # None
    /\ arm9code[1].secure_area_present
    /\ ndshdr[1].arm9off = 16384

\* C5: a header whose offset is not exactly 0x4000 is rejected before new
\* seeks or reads the cartridge (the handle is as parse_nds left it), and no
\* BootCode is produced.
C5_RejectedBeforeSeek ==
    (Extracted /\ ndshdr[1].arm9off # 16384) =>
        /\ pc = "panicked"
        /\ panic_at = "extract: assert"
        /\ arm9code = None
        /\ nds = [pos |-> 48, seeks |-> 1, read |-> 48]

C5_Witness ==
    /\ pc = "panicked"
    /\ panic_at = "extract: assert"
    /\ ndshdr[1].arm9off = 32760

StageAt(name) == {n \in 1..Len(stages) : stages[n] = name}
Before(a, b) == \A m \in StageAt(a), n \in StageAt(b) : m < n

\* C6: in every run that completes, the key-schedule derivation and the
\* transform of boot-code word 0 both took place, after header decoding and
\* before checksum validation and the dump.
C6_DeriveAndTransform ==
    pc = "done" =>
        /\ StageAt("derive") # {} /\ StageAt("transform") # {}
        /\ Before("decode", "derive") /\ Before("derive", "transform")
        /\ Before("transform", "validate") /\ Before("validate", "emit")

\* C7: arm9.bin exists only once loading, decoding, extraction and validation
\* have all completed; a truncated key blob or header, an offset other than
\* 0x4000, fewer words than declared or a boot code under 0x800 bytes end the
\* run with no arm9.bin.
C7_AllOrNothing ==
    /\ dump # None =>
           /\ encr # None /\ ndshdr # None /\ arm9code # None
           /\ crc_check_result # None
           /\ SubSeq(stages, 1, 7) =
                  <<"open", "load", "decode", "extract", "keycode", "report", "validate">>
    /\ (\/ env.encr_len < 4168
        \/ env.nds_len < 48
        \/ env.hdr.arm9off # 16384
        \/ AvailWords(env, 16384) < env.hdr.arm9size
        \/ 8 * env.hdr.arm9size < 2048) =>
           (dump = None /\ pc # "done")
    /\ panic_at \in {"open", "load", "decode", "extract: assert", "extract: read",
                     "extract: index", "validate", "create"} => dump = None

C7_Witness ==
    /\ pc = "done"
    /\ dump # None
    /\ dump[1].len > 0

\* C10: new succeeds for every header with offset 0x4000 whose source holds at
\* least arm9size words from there, arm9size = 0 included, and returns exactly
\* arm9size words; it fails only by the offset rejection or a short source.
C10_SucceedsWhenEnoughWords ==
    /\ (Extracted /\ ndshdr[1].arm9off = 16384
        /\ AvailWords(env, 16384) >= ndshdr[1].arm9size) =>
           (arm9code # None /\ Len(arm9code[1].raw_data) = ndshdr[1].arm9size)
    /\ (Extracted /\ arm9code = None) =>
           panic_at \in {"extract: assert", "extract: read"}

=============================================================================
